---- MODULE Spec2Model ----
(***************************************************************************)
(* TopicConnectionChecker (topic_connection_checker/node.py).              *)
(*                                                                         *)
(* Three kinds of thread act on the node object:                           *)
(*   - the orchestration thread (main): check_topics -> analyze_results    *)
(*     -> analyze_topic_connections -> check_topics ...                    *)
(*   - the executor pool running topic_callback for each subscription      *)
(*   - the executor pool running finish_check each time the timer fires    *)
(* The ROS graph (publishers per topic, subscriptions per node, topics     *)
(* whose message type resolves) is an input fixed at start.                *)
(***************************************************************************)
EXTENDS Integers, Sequences, FiniteSets, TLC

\* ------------------------------------------------------------------ bounds
\* Largest number of publishers a topic of the graph may have.
MaxPubs == 3

\* ------------------------------------------------------- the ROS graph
Topics == {"/a", "/b", "/c", "/rosout"}

NodeNames == <<"N1", "N2", "N3">>

Nodes == {NodeNames[i] : i \in 1..Len(NodeNames)}

\* self.ignore_topics
ignore_topics == {"/rosout", "/parameter_events"}

\* Offset of a topic's first publisher in NodeNames: the publishers of a
\* topic with n publishers are n consecutive nodes (cyclically) from there.
FirstPub(t) == CASE t = "/a" -> 0
                 [] t = "/b" -> 1
                 [] t = "/c" -> 2
                 [] OTHER -> 0

PubList(t, n) ==
    [i \in 1..n |-> NodeNames[((FirstPub(t) + i - 1) % Len(NodeNames)) + 1]]

\* Publisher counts: /a (always a seed) has one or two, /b (a seed or
\* discovered by tracing) has 0..MaxPubs, /c (only discovered) none or one,
\* /rosout one.
PubCounts(t) == CASE t = "/a" -> {1, 2}
                  [] t = "/b" -> 0..MaxPubs
                  [] t = "/c" -> {0, 1}
                  [] OTHER -> {1}

PubChoices ==
    { [t \in Topics |-> PubList(t, n[t])] :
        n \in {f \in [Topics -> 0..MaxPubs] : \A t \in Topics : f[t] \in PubCounts(t)} }

\* The seeds of the first round (self.important_topics at construction, a
\* list the operator edits): two plain topics, or a list with an ignored
\* topic and a repeated one.
Seeds == { <<"/a", "/b">>, <<"/rosout", "/a", "/a">> }

\* Subscriptions of the nodes: N1 subscribes to /b alone or to /b, /c and
\* /rosout, N2 to /c and (a cycle) to /a, N3 to nothing.
SubsChoices ==
    { [n \in Nodes |-> CASE n = "N1" -> s1 [] n = "N2" -> {"/c", "/a"} [] OTHER -> {}] :
        s1 \in {{"/b"}, {"/b", "/c", "/rosout"}} }

\* The message type of /b may fail to resolve or import.
TypeChoices == {Topics, Topics \ {"/b"}}

NoData == [absent |-> TRUE]
None == "None"

\* self.timer = None: no timer was created yet (rounds count from 1).
NoTimer == 0

VARIABLES
    publishers_info,    \* graph: topic -> sequence of publisher nodes
    node_subscriptions, \* graph: node -> set of subscribed topics
    typed_topics,       \* graph: topics whose message class can be loaded
    important_topics,   \* self.important_topics (a list)
    topic_data,         \* self.topic_data: topic -> observation or NoData
    data_order,         \* insertion order of the keys of self.topic_data
    lock,               \* self.lock: "free", "timer" or the topic of a callback
    check_completed,    \* self.check_completed (threading.Event)
    topics_to_check_next_round,
    checked_topics,
    reported_topics,
    timer,              \* self.timer: None, or the round that armed it
    subscriptions,      \* topic -> number of create_subscription calls
    executor_alive,     \* the spin thread still dispatches callbacks
    pc,                 \* position of the orchestration thread
    idx,                \* loop index of the orchestration thread
    stuck_topics,       \* local list of analyze_results
    round,              \* number of check_topics calls so far
    fin_pc,             \* position of the running finish_check, or "idle"
    fin_list,           \* the list object finish_check iterates
    fin_idx,            \* its loop index
    fin_gen,            \* the round that armed the timer that fired it
    cb,                 \* topic -> "idle" | "mid" (topic_callback between writes)
    \* ---- observation (log and history) ----
    stuck_warned,       \* topic -> number of "is stuck" warnings
    unexpected_warned,  \* topics with an "unexpected state" warning
    no_pub_error,       \* topics with a "no publishers" error from tracing
    status_logged,      \* topics with a stuck/active debug line from tracing
    traced,             \* topics passed to analyze_topic_connections
    delivered,          \* topics whose topic_callback ran to its end
    set_by,             \* round of the timer whose finish_check set the event last
    released_by         \* round -> timer round whose set() released its wait()

graphVars == <<publishers_info, node_subscriptions, typed_topics>>
orchVars == <<pc, idx, stuck_topics, round>>
finVars == <<fin_pc, fin_list, fin_idx, fin_gen>>
logVars == <<stuck_warned, unexpected_warned, no_pub_error, status_logged,
             traced, delivered, set_by, released_by>>
vars == <<publishers_info, node_subscriptions, typed_topics, important_topics,
          topic_data, data_order, lock, check_completed,
          topics_to_check_next_round, checked_topics, reported_topics, timer,
          subscriptions, executor_alive, pc, idx, stuck_topics, round,
          fin_pc, fin_list, fin_idx, fin_gen, cb,
          stuck_warned, unexpected_warned, no_pub_error, status_logged,
          traced, delivered, set_by, released_by>>

HasData(t) == topic_data[t] # NoData

Range(s) == {s[i] : i \in 1..Len(s)}

\* self.get_clock().now(): timestamps are never compared, so one value
\* other than None stands for all of them.
Now == "stamp"

Init ==
    /\ publishers_info \in PubChoices
    /\ node_subscriptions \in SubsChoices
    /\ typed_topics \in TypeChoices
    /\ important_topics \in Seeds
    /\ topic_data = [t \in Topics |-> NoData]
    /\ data_order = <<>>
    /\ lock = "free"
    /\ check_completed = FALSE
    /\ topics_to_check_next_round = {}
    /\ checked_topics = {}
    /\ reported_topics = {}
    /\ timer = NoTimer
    /\ subscriptions = [t \in Topics |-> 0]
    /\ executor_alive = TRUE
    /\ pc = "clear"
    /\ idx = 1
    /\ stuck_topics = <<>>
    /\ round = 1
    /\ fin_pc = "idle"
    /\ fin_list = <<>>
    /\ fin_idx = 1
    /\ fin_gen = NoTimer
    /\ cb = [t \in Topics |-> "idle"]
    /\ stuck_warned = [t \in Topics |-> 0]
    /\ unexpected_warned = {}
    /\ no_pub_error = {}
    /\ status_logged = {}
    /\ traced = {}
    /\ delivered = {}
    /\ set_by = NoTimer
    /\ released_by = <<>>

\* ------------------------------------------------ orchestration thread

\* check_topics, line 59: self.check_completed.clear()
ClearCompleted ==
    /\ pc = "clear"
    /\ check_completed' = FALSE
    /\ pc' = "check"
    /\ idx' = 1
    /\ UNCHANGED <<graphVars, important_topics, topic_data, data_order, lock,
                   topics_to_check_next_round, checked_topics, reported_topics,
                   timer, subscriptions, executor_alive, stuck_topics, round,
                   finVars, cb, logVars>>

\* get_topic_type and the dynamic import of check_topic both succeed.
TypeResolves(topic) == topic \in typed_topics

\* check_topic(topic): on a type failure nothing is created; otherwise the
\* observation entry is (re)created and one subscription is made.
check_topic(topic) ==
    IF ~TypeResolves(topic)
    THEN UNCHANGED <<topic_data, data_order, subscriptions>>
    ELSE /\ topic_data' = [topic_data EXCEPT ![topic] =
                [received |-> FALSE, publishers |-> <<>>, last_received |-> None]]
         /\ data_order' = IF HasData(topic) THEN data_order
                          ELSE Append(data_order, topic)
         /\ subscriptions' = [subscriptions EXCEPT ![topic] = @ + 1]

\* Mutant of NeedsCheck: every listed topic is checked again.
NeedsCheck_always(topic) == TRUE

\* check_topics, line 61: only topics never checked before are checked.
NeedsCheck(topic) == topic \notin checked_topics

\* Mutant of MarkChecked: the topic is not recorded as checked.
MarkChecked_skip(topic) == UNCHANGED checked_topics

\* check_topics, line 63: self.checked_topics.add(topic), whatever
\* check_topic did.
MarkChecked(topic) == checked_topics' = checked_topics \cup {topic}

\* check_topics, lines 60-63: one iteration of the loop over important_topics.
CheckNextTopic ==
    /\ pc = "check"
    /\ idx <= Len(important_topics)
    /\ LET topic == important_topics[idx] IN
         IF NeedsCheck(topic)
         THEN /\ check_topic(topic)
              /\ MarkChecked(topic)
         ELSE UNCHANGED <<topic_data, data_order, subscriptions, checked_topics>>
    /\ idx' = idx + 1
    /\ UNCHANGED <<graphVars, important_topics, lock, check_completed,
                   topics_to_check_next_round, reported_topics, timer,
                   executor_alive, pc, stuck_topics, round, finVars, cb, logVars>>

\* check_topics, lines 66-68: cancel the existing timer and create a new one.
ArmTimer ==
    /\ pc = "check"
    /\ idx > Len(important_topics)
    /\ timer' = round
    /\ pc' = "wait"
    /\ UNCHANGED <<graphVars, important_topics, topic_data, data_order, lock,
                   check_completed, topics_to_check_next_round, checked_topics,
                   reported_topics, subscriptions, executor_alive, idx,
                   stuck_topics, round, finVars, cb, logVars>>

\* check_topics, line 71: self.check_completed.wait() returns.
WaitCompleted ==
    /\ pc = "wait"
    /\ check_completed
    /\ pc' = "analyze"
    /\ idx' = 1
    /\ stuck_topics' = <<>>
    /\ released_by' = Append(released_by, set_by)
    /\ UNCHANGED <<graphVars, important_topics, topic_data, data_order, lock,
                   check_completed, topics_to_check_next_round, checked_topics,
                   reported_topics, timer, subscriptions, executor_alive, round,
                   finVars, cb, stuck_warned, unexpected_warned, no_pub_error,
                   status_logged, traced, delivered, set_by>>

\* Mutants of IsStuckCandidate: one of its three conditions wrong.
IsStuckCandidate_again(topic) ==
    /\ topic \notin ignore_topics
    /\ Len(topic_data[topic].publishers) = 1

IsStuckCandidate_many(topic) ==
    /\ topic \notin ignore_topics
    /\ Len(topic_data[topic].publishers) >= 1
    /\ topic \notin reported_topics

IsStuckCandidate_ignored(topic) ==
    /\ Len(topic_data[topic].publishers) = 1
    /\ topic \notin reported_topics

\* analyze_results, lines 151-155: the condition of the stuck branch.
IsStuckCandidate(topic) ==
    /\ topic \notin ignore_topics
    /\ Len(topic_data[topic].publishers) = 1
    /\ topic \notin reported_topics

\* Mutant of NotStuckOutcome: the outer else is taken for it as well.
NotStuckOutcome_warn(topic) ==
    unexpected_warned' = unexpected_warned \cup {topic}

\* analyze_results, lines 150-160: the inner if has no else, so an entry
\* that is not received and no stuck candidate logs nothing.
NotStuckOutcome(topic) == UNCHANGED unexpected_warned

\* Mutant of ReadsNotReceived: the timestamp is tested in place of the flag.
ReadsNotReceived_stamp(topic) == topic_data[topic].last_received = None

\* analyze_results, line 150: `if not data["received"]`, read without the lock.
ReadsNotReceived(topic) == ~topic_data[topic].received

\* analyze_results, lines 149-160: read data["received"] of the next entry;
\* when it is False the stuck branch runs, otherwise line 162 is next.
AnalyzeReceived ==
    /\ pc = "analyze"
    /\ idx <= Len(data_order)
    /\ LET topic == data_order[idx] IN
         IF ReadsNotReceived(topic)
         THEN /\ IF IsStuckCandidate(topic)
                 THEN /\ stuck_warned' = [stuck_warned EXCEPT ![topic] = @ + 1]
                      /\ stuck_topics' = Append(stuck_topics, topic)
                      /\ reported_topics' = reported_topics \cup {topic}
                      /\ UNCHANGED unexpected_warned
                 ELSE /\ NotStuckOutcome(topic)
                      /\ UNCHANGED <<stuck_warned, stuck_topics, reported_topics>>
              /\ idx' = idx + 1
              /\ pc' = pc
         ELSE /\ pc' = "last_received"
              /\ UNCHANGED <<stuck_warned, stuck_topics, reported_topics, idx,
                             unexpected_warned>>
    /\ UNCHANGED <<graphVars, important_topics, topic_data, data_order, lock,
                   check_completed, topics_to_check_next_round, checked_topics,
                   timer, subscriptions, executor_alive, round, finVars, cb,
                   no_pub_error, status_logged, traced,
                   delivered, set_by, released_by>>

\* analyze_results, lines 162-166: read data["last_received"] of an entry
\* whose received flag was read True.
AnalyzeLastReceived ==
    /\ pc = "last_received"
    /\ LET topic == data_order[idx] IN
         unexpected_warned' =
             IF topic_data[topic].last_received # None
             THEN unexpected_warned
             ELSE unexpected_warned \cup {topic}
    /\ idx' = idx + 1
    /\ pc' = "analyze"
    /\ UNCHANGED <<graphVars, important_topics, topic_data, data_order, lock,
                   check_completed, topics_to_check_next_round, checked_topics,
                   reported_topics, timer, subscriptions, executor_alive,
                   stuck_topics, round, finVars, cb, stuck_warned, no_pub_error,
                   status_logged, traced, delivered, set_by, released_by>>

\* analyze_results, line 168: the loop over topic_data is over.
AnalyzeDone ==
    /\ pc = "analyze"
    /\ idx > Len(data_order)
    /\ pc' = "trace"
    /\ idx' = 1
    /\ UNCHANGED <<graphVars, important_topics, topic_data, data_order, lock,
                   check_completed, topics_to_check_next_round, checked_topics,
                   reported_topics, timer, subscriptions, executor_alive,
                   stuck_topics, round, finVars, cb, logVars>>

\* analyze_topic_connections, lines 180-189: the topics the publishers of
\* the stuck topic subscribe to, without the ignored ones.
TraceVisited(stuck_topic) ==
    UNION {node_subscriptions[n] :
             n \in Range(topic_data[stuck_topic].publishers)} \ ignore_topics

\* lines 191-194: the visited topics with no publisher (error logged).
TraceNoPublisher(stuck_topic) ==
    {t \in TraceVisited(stuck_topic) : Len(publishers_info[t]) = 0}

\* Mutant of TraceKept: the `continue` taken only above three publishers.
TraceKept_three(stuck_topic) ==
    {t \in TraceVisited(stuck_topic) : ~(Len(publishers_info[t]) > 3)}

\* lines 195-197: what is left after the `continue` of the > 2 branch.
TraceKept(stuck_topic) ==
    {t \in TraceVisited(stuck_topic) : ~(Len(publishers_info[t]) > 2)}

\* lines 198-200: kept topics already in topic_data get a status line.
TraceStatus(stuck_topic) ==
    {t \in TraceKept(stuck_topic) : HasData(t)}

\* Mutant of TraceFrontier: every kept topic goes to the next round.
TraceFrontier_all(stuck_topic) == TraceKept(stuck_topic)

\* lines 201-203: kept topics never checked go to the next round.
TraceFrontier(stuck_topic) ==
    {t \in TraceKept(stuck_topic) : ~HasData(t) /\ t \notin checked_topics}

\* analyze_results, lines 168-169: analyze_topic_connections(topic) for the
\* next stuck topic.
analyze_topic_connections ==
    /\ pc = "trace"
    /\ idx <= Len(stuck_topics)
    /\ LET stuck_topic == stuck_topics[idx] IN
         /\ traced' = traced \cup {stuck_topic}
         /\ no_pub_error' = no_pub_error \cup TraceNoPublisher(stuck_topic)
         /\ status_logged' = status_logged \cup TraceStatus(stuck_topic)
         /\ topics_to_check_next_round' =
                topics_to_check_next_round \cup TraceFrontier(stuck_topic)
    /\ idx' = idx + 1
    /\ UNCHANGED <<graphVars, important_topics, topic_data, data_order, lock,
                   check_completed, checked_topics, reported_topics, timer,
                   subscriptions, executor_alive, pc, stuck_topics, round,
                   finVars, cb, stuck_warned, unexpected_warned, delivered,
                   set_by, released_by>>

\* Mutant of ListsOf: the frontier kept as a list, a topic reached twice
\* listed twice.
ListsOf_dup(S) ==
    UNION { {s \in [1..n -> S] : Range(s) = S} :
              n \in Cardinality(S)..(Cardinality(S) + 1) }

\* list(a_set): the elements once each, in an order the hash seed decides.
ListsOf(S) == {s \in [1..Cardinality(S) -> S] : Range(s) = S}

\* analyze_results, lines 171-177: start another round when the frontier is
\* not empty; otherwise analyze_results and check_topics return.
NextRound ==
    /\ pc = "trace"
    /\ idx > Len(stuck_topics)
    /\ IF topics_to_check_next_round # {}
       THEN /\ important_topics' \in ListsOf(topics_to_check_next_round)
            /\ topics_to_check_next_round' = {}
            /\ round' = round + 1
            /\ pc' = "clear"
       ELSE /\ pc' = "done"
            /\ UNCHANGED <<important_topics, topics_to_check_next_round, round>>
    /\ UNCHANGED <<graphVars, topic_data, data_order, lock, check_completed,
                   checked_topics, reported_topics, timer, subscriptions,
                   executor_alive, idx, stuck_topics, finVars, cb, logVars>>

\* ------------------------------------------------------ executor threads

\* Mutant of CallbackReceived: the writes are made without `with self.lock`.
CallbackReceived_nolock(topic) ==
    /\ executor_alive
    /\ subscriptions[topic] > 0
    /\ Len(publishers_info[topic]) > 0
    /\ cb[topic] = "idle"
    /\ topic_data' = [topic_data EXCEPT ![topic].received = TRUE]
    /\ cb' = [cb EXCEPT ![topic] = "mid"]
    /\ UNCHANGED <<graphVars, important_topics, data_order, check_completed,
                   topics_to_check_next_round, checked_topics, reported_topics,
                   timer, subscriptions, executor_alive, orchVars, finVars,
                   logVars, lock>>

\* topic_callback, lines 125-126: take the lock and set received. A message
\* arrives only on a subscribed topic that has a publisher; the QoS profile
\* of the subscription (get_publisher_qos) plays no part in what follows.
CallbackReceived(topic) ==
    /\ executor_alive
    /\ subscriptions[topic] > 0
    /\ Len(publishers_info[topic]) > 0
    /\ cb[topic] = "idle"
    /\ lock = "free"
    /\ lock' = topic
    /\ topic_data' = [topic_data EXCEPT ![topic].received = TRUE]
    /\ cb' = [cb EXCEPT ![topic] = "mid"]
    /\ UNCHANGED <<graphVars, important_topics, data_order, check_completed,
                   topics_to_check_next_round, checked_topics, reported_topics,
                   timer, subscriptions, executor_alive, orchVars, finVars,
                   logVars>>

\* topic_callback, line 127: set last_received and release the lock.
CallbackLastReceived(topic) ==
    /\ cb[topic] = "mid"
    /\ topic_data' = [topic_data EXCEPT ![topic].last_received = Now]
    /\ lock' = "free"
    /\ cb' = [cb EXCEPT ![topic] = "idle"]
    /\ delivered' = delivered \cup {topic}
    /\ UNCHANGED <<graphVars, important_topics, data_order, check_completed,
                   topics_to_check_next_round, checked_topics, reported_topics,
                   timer, subscriptions, executor_alive, orchVars, finVars,
                   stuck_warned, unexpected_warned, no_pub_error, status_logged,
                   traced, set_by, released_by>>

topic_callback == \E topic \in Topics :
    CallbackReceived(topic) \/ CallbackLastReceived(topic)

\* The timer fires: finish_check starts and binds self.important_topics.
FinishStart ==
    /\ executor_alive
    /\ timer # NoTimer
    /\ fin_pc = "idle"
    /\ fin_pc' = "loop"
    /\ fin_list' = important_topics
    /\ fin_idx' = 1
    /\ fin_gen' = timer
    /\ UNCHANGED <<graphVars, important_topics, topic_data, data_order, lock,
                   check_completed, topics_to_check_next_round, checked_topics,
                   reported_topics, timer, subscriptions, executor_alive,
                   orchVars, cb, logVars>>

\* finish_check, lines 132-133: query the publishers and take the lock.
FinishLock ==
    /\ fin_pc = "loop"
    /\ fin_idx <= Len(fin_list)
    /\ lock = "free"
    /\ lock' = "timer"
    /\ fin_pc' = "locked"
    /\ UNCHANGED <<graphVars, important_topics, topic_data, data_order,
                   check_completed, topics_to_check_next_round, checked_topics,
                   reported_topics, timer, subscriptions, executor_alive,
                   orchVars, fin_list, fin_idx, fin_gen, cb, logVars>>

\* finish_check, lines 134-136: store the publisher list; a topic without an
\* entry in topic_data raises KeyError, which leaves the with block and
\* ends the callback.
FinishStore ==
    /\ fin_pc = "locked"
    /\ lock' = "free"
    /\ LET topic == fin_list[fin_idx] IN
         IF HasData(topic)
         THEN /\ topic_data' = [topic_data EXCEPT
                                  ![topic].publishers = publishers_info[topic]]
              /\ fin_idx' = fin_idx + 1
              /\ fin_pc' = "loop"
         ELSE /\ fin_pc' = "raised"
              /\ UNCHANGED <<topic_data, fin_idx>>
    /\ UNCHANGED <<graphVars, important_topics, data_order, check_completed,
                   topics_to_check_next_round, checked_topics, reported_topics,
                   timer, subscriptions, executor_alive, orchVars, fin_list,
                   fin_gen, cb, logVars>>

\* finish_check, line 138: self.check_completed.set()
FinishSet ==
    /\ fin_pc = "loop"
    /\ fin_idx > Len(fin_list)
    /\ check_completed' = TRUE
    /\ set_by' = fin_gen
    /\ fin_pc' = "idle"
    /\ UNCHANGED <<graphVars, important_topics, topic_data, data_order, lock,
                   topics_to_check_next_round, checked_topics, reported_topics,
                   timer, subscriptions, executor_alive, orchVars, fin_list,
                   fin_idx, fin_gen, cb, stuck_warned, unexpected_warned,
                   no_pub_error, status_logged, traced, delivered, released_by>>

\* The exception of a callback is re-raised in executor.spin(): the spin
\* thread of main() ends and no further callback is dispatched.
SpinRaises ==
    /\ fin_pc = "raised"
    /\ fin_pc' = "dead"
    /\ executor_alive' = FALSE
    /\ UNCHANGED <<graphVars, important_topics, topic_data, data_order, lock,
                   check_completed, topics_to_check_next_round, checked_topics,
                   reported_topics, timer, subscriptions, orchVars, fin_list,
                   fin_idx, fin_gen, cb, logVars>>

finish_check == FinishStart \/ FinishLock \/ FinishStore \/ FinishSet

check_topics == ClearCompleted \/ CheckNextTopic \/ ArmTimer \/ WaitCompleted

analyze_results ==
    AnalyzeReceived \/ AnalyzeLastReceived \/ AnalyzeDone
      \/ analyze_topic_connections \/ NextRound

Next ==
    check_topics \/ analyze_results \/ topic_callback \/ finish_check
      \/ SpinRaises

Spec == Init /\ [][Next]_vars

\* The ROS graph is live: get_publishers_info_by_topic (lines 105, 134, 190)
\* answers for the graph at the time of the call.  A node that starts late
\* becomes the first publisher of /b.
PublisherJoins ==
    /\ publishers_info["/b"] = <<>>
    /\ publishers_info' = [publishers_info EXCEPT !["/b"] = PubList("/b", 1)]
    /\ UNCHANGED <<node_subscriptions, typed_topics, important_topics,
                   topic_data, data_order, lock, check_completed,
                   topics_to_check_next_round, checked_topics, reported_topics,
                   timer, subscriptions, executor_alive, orchVars, finVars, cb,
                   logVars>>

NextDyn == Next \/ PublisherJoins

\* The checker run against a graph that a publisher may join.
SpecDyn == Init /\ [][NextDyn]_vars

\* ------------------------------------------------------------------ claims

\* The graph of the round-trip scenario: /a has the sole publisher N1, N1
\* subscribes to /b alone, /b has no publisher.
C1_Scenario ==
    /\ publishers_info["/a"] = <<"N1">>
    /\ node_subscriptions["N1"] = {"/b"}
    /\ publishers_info["/b"] = <<>>

\* C1: a topic with zero publishers that the publisher of a stuck topic
\* subscribes to is logged as an error and is never put into the frontier;
\* in the scenario of C1_Scenario, once /a was reported stuck and traced, no
\* second round is started.
C1_ZeroPublisherLeadIsTerminal ==
    /\ \A s \in traced : TraceNoPublisher(s) \subseteq no_pub_error
    /\ \A t \in topics_to_check_next_round : Len(publishers_info[t]) > 0
    /\ (C1_Scenario /\ "/a" \in traced) => round = 1

\* C2: a topic that analyze_results reads as not received, with exactly one
\* publisher, not ignored and not yet reported gets one stuck warning and
\* enters reported_topics in that step; over all rounds no topic has more than
\* one stuck warning, and the reported topics are those with one warning.
C2_StuckWarnedOnce ==
    [][ \A t \in Topics :
          /\ stuck_warned'[t] <= 1
          /\ (t \in reported_topics') <=> (stuck_warned'[t] = 1)
          /\ ( /\ pc = "analyze"
               /\ idx <= Len(data_order)
               /\ data_order[idx] = t
               /\ idx' = idx + 1
               /\ ~topic_data[t].received
               /\ Len(topic_data[t].publishers) = 1
               /\ t \notin ignore_topics
               /\ t \notin reported_topics )
             => (stuck_warned'[t] = 1 /\ t \in reported_topics') ]_vars

\* C2 witness: the second round's analysis is over, /a was read as still
\* stuck in it and has its one warning from the first round.
C2_Witness ==
    /\ round = 2
    /\ pc = "trace"
    /\ ~topic_data["/a"].received
    /\ Len(topic_data["/a"].publishers) = 1
    /\ stuck_warned["/a"] = 1

\* C3: a topic skipped for its type does not keep the round from completing:
\* the finish_check of the round's own timer never ends on that topic with
\* the orchestration thread left in wait() and the event unset.
C3_TypeFailureRoundCompletes ==
    ~ ( /\ pc = "wait"
        /\ ~check_completed
        /\ fin_pc = "dead"
        /\ fin_gen = round
        /\ ~TypeResolves(fin_list[fin_idx])
        /\ ~HasData(fin_list[fin_idx]) )

\* The orchestration thread waits for an event no callback can set any more.
Hung == pc = "wait" /\ ~check_completed /\ fin_pc = "dead"

\* C4: the sequence of rounds terminates: there are never more rounds than
\* topics, and the orchestration thread is never left waiting for ever before
\* an analysis has found the frontier empty.
C4_RoundsTerminate ==
    /\ round <= Cardinality(Topics)
    /\ ~Hung

\* C5 as stated: the next round's important_topics holds every topic of the
\* frontier exactly once, and each of them is subscribed to in that round.
C5_DiscoveredTopicSubscribed ==
    [][ /\ (round' = round + 1) =>
             /\ Range(important_topics') = topics_to_check_next_round
             /\ Len(important_topics') = Cardinality(topics_to_check_next_round)
        /\ (round' >= 2 /\ pc' = "wait") =>
             \A t \in Range(important_topics') : subscriptions'[t] = 1 ]_vars

\* C5 amended: the next round's important_topics holds every topic of the
\* frontier exactly once, none of them checked before; in that round each
\* enters checked_topics and is subscribed to once if its type resolves, and
\* not at all if it does not.
C5_DiscoveredTopicCheckedOnce ==
    [][ /\ (round' = round + 1) =>
             /\ Range(important_topics') = topics_to_check_next_round
             /\ Len(important_topics') = Cardinality(topics_to_check_next_round)
             /\ topics_to_check_next_round \cap checked_topics = {}
        /\ (round' >= 2 /\ pc' = "wait") =>
             \A t \in Range(important_topics') :
                 /\ t \in checked_topics'
                 /\ subscriptions'[t] = IF TypeResolves(t) THEN 1 ELSE 0 ]_vars

\* C5 witness: /c was reached from both stuck topics /a and /b in round 1
\* and is the one topic of round 2, subscribed to once.
C5_Witness ==
    /\ round = 2
    /\ pc = "wait"
    /\ {"/a", "/b"} \subseteq traced
    /\ "/c" \in node_subscriptions["N1"] \cap node_subscriptions["N2"]
    /\ important_topics = <<"/c">>
    /\ subscriptions["/c"] = 1

\* C6: a topic whose observation lists more than one publisher is never
\* warned as stuck, never in reported_topics, never on the stuck work list
\* and never traced.
C6_MultiPublisherNeverStuck ==
    \A t \in Topics :
        (HasData(t) /\ Len(topic_data[t].publishers) > 1) =>
            /\ stuck_warned[t] = 0
            /\ t \notin reported_topics
            /\ t \notin Range(stuck_topics)
            /\ t \notin traced

\* C6 witness: an analysis is over in which a topic with several publishers
\* and no message was read.
C6_Witness ==
    /\ pc = "trace"
    /\ \E t \in Topics :
          /\ HasData(t)
          /\ Len(topic_data[t].publishers) > 1
          /\ ~topic_data[t].received

\* C7: an ignored topic is never reported stuck, never traced, never put
\* into the frontier and never a topic of a later round.
C7_IgnoredNeverStuckNorTraced ==
    \A t \in Topics \cap ignore_topics :
        /\ stuck_warned[t] = 0
        /\ t \notin reported_topics
        /\ t \notin Range(stuck_topics)
        /\ t \notin traced
        /\ t \notin topics_to_check_next_round
        /\ round >= 2 => t \notin Range(important_topics)

\* C7 witness: /rosout was analysed with one publisher and no message,
\* and the traced stuck topic /a has a publisher that subscribes to it.
C7_Witness ==
    /\ pc = "done"
    /\ HasData("/rosout")
    /\ ~topic_data["/rosout"].received
    /\ Len(topic_data["/rosout"].publishers) = 1
    /\ "/a" \in traced
    /\ topic_data["/a"].publishers = <<"N1">>
    /\ "/rosout" \in node_subscriptions["N1"]

\* C8: a topic whose arrival callback has run to its end has received true
\* and a timestamp in its observation, in particular after finish_check.
C8_DeliveredIsReceived ==
    \A t \in delivered :
        /\ HasData(t)
        /\ topic_data[t].received
        /\ topic_data[t].last_received # None

\* C8 witness: the round's own finish_check has set the event, the wait is
\* over and a topic of the round had its message delivered.
C8_Witness ==
    /\ pc = "analyze"
    /\ set_by = round
    /\ \E t \in delivered : t \in Range(important_topics)

\* The topic was reported in an earlier analysis than the current one.
ReportedBefore(t) == t \in reported_topics /\ t \notin Range(stuck_topics)

C10_ReleasedByOwnTimer ==
    \A k \in DOMAIN released_by : released_by[k] = k

\* C11 as stated: checked_topics is the set of topics subscribed to, and
\* every topic in it has an observation entry; a topic skipped for its type
\* is not in it.
C11_CheckedIsSubscribed ==
    /\ checked_topics = {t \in Topics : subscriptions[t] > 0}
    /\ \A t \in checked_topics : HasData(t)

\* C12 as stated: the publishers of an entry are stored by one run of
\* finish_check only, that of the timer of the round that checked the topic:
\* each store is made by the timer of the current round, into an entry that
\* still holds the empty list check_topic gave it or that this same run has
\* stored already (a topic listed twice). An entry of a topic without
\* publishers looks the same after a store, so of the stores of a second run
\* only those for topics with publishers are seen here.
C12_PublishersWrittenOnce ==
    [][ (fin_pc = "locked" /\ fin_pc' = "loop") =>
          /\ fin_gen = round
          /\ \/ topic_data[fin_list[fin_idx]].publishers = <<>>
             \/ \E i \in 1..(fin_idx - 1) : fin_list[i] = fin_list[fin_idx] ]_vars

\* An analysis is running (its loop, or the tracing that follows it).
Analysing == pc \in {"analyze", "last_received", "trace"}

\* C13 as stated: a topic reported stuck by the analysis that is running
\* never has received true in its observation.
C13_ReportedNotReceived ==
    Analysing =>
        \A t \in Range(stuck_topics) :
            t \in reported_topics => ~topic_data[t].received

\* C13 amended: a topic enters reported_topics only in a step that reads its
\* received flag as false; the flag may become true afterwards, while the
\* topic stays reported.
C13_ReportedWhenNotReceived ==
    [][ \A t \in Topics :
          (t \in reported_topics' /\ t \notin reported_topics) =>
              (~topic_data[t].received /\ ~topic_data'[t].received) ]_vars

\* C13 witness: the analysis that reported a topic is still running and a
\* message has arrived on the topic since.
C13_Witness ==
    /\ Analysing
    /\ \E t \in Range(stuck_topics) :
          /\ t \in reported_topics
          /\ topic_data[t].received
          /\ t \in delivered

\* The callbacks that are inside a write to topic_data: the arrival callback
\* of a topic between its two writes, the timer callback at its store.
Writers ==
    {t \in Topics : cb[t] = "mid"} \cup
        (IF fin_pc = "locked" THEN {"timer"} ELSE {})

\* C14: the writes of topic_callback and finish_check to topic_data are made
\* holding self.lock: at most one callback is inside a write at a time, and
\* it is the holder of the lock.
C14_WritesUnderLock ==
    /\ Cardinality(Writers) <= 1
    /\ \A w \in Writers : lock = w
    /\ (Writers = {}) => lock = "free"

\* C14 witness: an arrival callback is between its two writes while
\* finish_check is at a topic it has yet to store and a subscribed topic with
\* a publisher has no message yet: both have to wait for the lock.
C14_Witness ==
    /\ \E t \in Topics : cb[t] = "mid" /\ lock = t
    /\ fin_pc = "loop"
    /\ fin_idx <= Len(fin_list)
    /\ \E u \in Topics :
          /\ cb[u] = "idle"
          /\ subscriptions[u] > 0
          /\ Len(publishers_info[u]) > 0
          /\ ~topic_data[u].received

\* C15: every reported topic is a checked topic.
C15_ReportedSubsetChecked == reported_topics \subseteq checked_topics

\* C15 witness: a second round is running, the topic reported in the first
\* one is among the checked topics and the new topic of this round is too.
C15_Witness ==
    /\ round = 2
    /\ pc = "wait"
    /\ reported_topics # {}
    /\ reported_topics # checked_topics
    /\ Range(important_topics) \subseteq checked_topics

\* C16: checked_topics only grows; no topic is subscribed to more than once,
\* also when it is listed twice in one round; an observation entry, once
\* created, is never deleted nor set back to its initial values, and no
\* further subscription is made for its topic.
C16_SubscribedOnce ==
    [][ /\ checked_topics \subseteq checked_topics'
        /\ \A t \in Topics :
             /\ subscriptions'[t] <= 1
             /\ HasData(t) =>
                  /\ topic_data'[t] # NoData
                  /\ subscriptions'[t] = subscriptions[t]
                  /\ topic_data[t].received => topic_data'[t].received
                  /\ topic_data[t].last_received # None =>
                         topic_data'[t].last_received # None
                  /\ topic_data[t].publishers # <<>> =>
                         topic_data'[t].publishers # <<>> ]_vars

\* C16 witness: the loop of check_topics has passed both occurrences of /a
\* in the seed list; /a has one subscription and the message it received.
C16_Witness ==
    /\ round = 1
    /\ pc = "check"
    /\ important_topics = <<"/rosout", "/a", "/a">>
    /\ idx > Len(important_topics)
    /\ subscriptions["/a"] = 1
    /\ topic_data["/a"].received
    /\ topic_data["/a"].last_received # None

\* C17: the frontier never holds a checked topic, and when a round after
\* the first starts none of its important_topics is a checked topic.
C17_FrontierDisjointFromChecked ==
    /\ topics_to_check_next_round \cap checked_topics = {}
    /\ (round >= 2 /\ pc = "clear") =>
           Range(important_topics) \cap checked_topics = {}

\* C17 witness: the second round starts after /b was traced, whose
\* publisher N2 subscribes to the checked topic /a and to /c; /c alone is
\* a topic of the round.
C17_Witness ==
    /\ round = 2
    /\ pc = "clear"
    /\ "/b" \in traced
    /\ topic_data["/b"].publishers = <<"N2">>
    /\ "/a" \in node_subscriptions["N2"] \cap checked_topics
    /\ important_topics = <<"/c">>

\* The topics a node of the publisher list of stuck topic s subscribes to.
SubscribedUpstream(s) ==
    {t \in Topics : \E n \in Range(topic_data[s].publishers) :
                        t \in node_subscriptions[n]}

\* C18: a topic with more than two publishers is never in the frontier and
\* never gets a status line; while the stuck topics are traced, every
\* never-checked, non-ignored topic with one or two publishers that a
\* publisher of an already traced stuck topic subscribes to is in the
\* frontier.
C18_ManyPublishersSkipped ==
    /\ \A t \in Topics : Len(publishers_info[t]) > 2 =>
           /\ t \notin topics_to_check_next_round
           /\ t \notin status_logged
    /\ pc = "trace" =>
         \A i \in 1..(idx - 1) : \A t \in SubscribedUpstream(stuck_topics[i]) :
            ( /\ t \notin ignore_topics
              /\ t \notin checked_topics
              /\ Len(publishers_info[t]) \in {1, 2} )
                => t \in topics_to_check_next_round

\* C18 witness: stuck /a was traced; its publisher N1 subscribes to /b,
\* which has three publishers, and to the never-checked /c, which has one
\* and is in the frontier.
C18_Witness ==
    /\ pc = "trace"
    /\ idx > 1
    /\ stuck_topics[1] = "/a"
    /\ {"/b", "/c"} \subseteq SubscribedUpstream("/a")
    /\ Len(publishers_info["/b"]) = 3
    /\ Len(publishers_info["/c"]) = 1
    /\ "/c" \notin checked_topics
    /\ "/c" \in topics_to_check_next_round

\* C19: whenever analyze_results is at an entry of topic_data, the entry has
\* received true exactly when it has a timestamp, and the "unexpected state"
\* warning is never logged.
C19_ReceivedIffStamp ==
    /\ unexpected_warned = {}
    /\ (pc \in {"analyze", "last_received"} /\ idx <= Len(data_order)) =>
           (topic_data[data_order[idx]].received <=>
                topic_data[data_order[idx]].last_received # None)

\* C20: a topic is reported stuck only by the analysis of the round that
\* checked it, i.e. while it is one of that round's important_topics; a
\* topic with zero publishers at the end of its round is not reported later.
C20_ReportedInOwnRound ==
    [][ \A t \in Topics :
          (t \in reported_topics' /\ t \notin reported_topics) =>
              t \in Range(important_topics) ]_vars
====
